---- MODULE Spec2Model ----
(* Notes Service (src/main.py): the in-memory store, its six request      *)
(* handlers and the error envelope, as a state machine.  Strings are      *)
(* sequences of one-character strings; timestamps are whole seconds.      *)
EXTENDS Integers, Sequences, FiniteSets, TLC

VARIABLES notes_store, next_id, now, resp, last_post, issued, deleted, pc, loc

vars == <<notes_store, next_id, now, resp, last_post, issued, deleted, pc, loc>>

\* ------------------------------------------------------------------ bounds
MaxNotes == 2       \* creates per run (caps next_id)
MaxTime == 1        \* seconds the clock may advance
NumThreads == 2     \* concurrent POST /notes requests

\* ------------------------------------------------------------ python values
NoneStr == <<"None">>                    \* Optional[str] = None
NoBody == <<>>                           \* empty response body

Whitespace == {" "}
LowerChar(c) == IF c = "A" THEN "a" ELSE IF c = "B" THEN "b" ELSE c

\* str.strip()
RECURSIVE LStrip(_)
LStrip(s) == IF s # <<>> /\ Head(s) \in Whitespace THEN LStrip(Tail(s)) ELSE s
RECURSIVE RStrip(_)
RStrip(s) ==
    IF s # <<>> /\ s[Len(s)] \in Whitespace THEN RStrip(SubSeq(s, 1, Len(s) - 1)) ELSE s
strip(s) == RStrip(LStrip(s))

\* str.lower()
lower(s) == [i \in 1..Len(s) |-> LowerChar(s[i])]

\* sub in s
RECURSIVE str_in(_, _)
str_in(sub, s) ==
    IF Len(sub) > Len(s) THEN FALSE
    ELSE IF SubSeq(s, 1, Len(sub)) = sub THEN TRUE
    ELSE str_in(sub, Tail(s))

Min(a, b) == IF a < b THEN a ELSE b

\* s[lo:hi] for lo, hi >= 0
Slice(s, lo, hi) ==
    IF lo >= Min(hi, Len(s)) THEN <<>> ELSE SubSeq(s, lo + 1, Min(hi, Len(s)))

\* sorted(d): the keys of a dict in ascending order
RECURSIVE sorted(_)
sorted(keys) ==
    IF keys = {} THEN <<>>
    ELSE LET m == CHOOSE k \in keys : \A j \in keys : k <= j
         IN  <<m>> \o sorted(keys \ {m})

\* ------------------------------------------------------------------ models
Note(id, title, content, created_at, updated_at) ==
    [id |-> id, title |-> title, content |-> content,
     created_at |-> created_at, updated_at |-> updated_at]

NoneNote == Note(0, <<>>, <<>>, 0, 0)    \* Optional[Note] = None

ErrorResponse(code, message) == [error |-> [code |-> code, message |-> message]]

\* variant: the validator tests the raw value only and forgets value.strip()
title_must_not_be_empty_raw(value) == ~(value = <<>>)

\* CreateNoteRequest.title_must_not_be_empty: TRUE when the title is accepted
title_must_not_be_empty(value) == ~(value = <<>> \/ strip(value) = <<>>)

\* variant: the update validator rejects only the empty string
title_if_provided_raw(value) == ~(value # NoneStr /\ value = <<>>)

\* UpdateNoteRequest.title_if_provided_must_not_be_empty
title_if_provided_must_not_be_empty(value) == ~(value # NoneStr /\ strip(value) = <<>>)

\* --------------------------------------------------------------- the store
utc_now_iso == now

Put(store, k, v) == [x \in DOMAIN store \cup {k} |-> IF x = k THEN v ELSE store[x]]

\* variant: the id is derived from the size of the store, len(notes_store) + 1
create_note_len_id(store, nid, title, content, t) ==
    LET id == Cardinality(DOMAIN store) + 1
        note == Note(id, title, content, t, t)
    IN  [store |-> Put(store, id, note), next_id |-> nid + 1, ret |-> note]

\* variant: the note keeps the content default instead of the content passed in
create_note_drop_content(store, nid, title, content, t) ==
    LET note == Note(nid, title, <<>>, t, t)
    IN  [store |-> Put(store, nid, note), next_id |-> nid + 1, ret |-> note]

create_note(store, nid, title, content, t) ==
    LET note == Note(nid, title, content, t, t)
    IN  [store |-> Put(store, nid, note), next_id |-> nid + 1, ret |-> note]

\* variant: the window is all_notes[offset : limit]
list_notes_end_limit(store, limit, offset) ==
    LET ids == sorted(DOMAIN store)
        all_notes == [i \in 1..Len(ids) |-> store[ids[i]]]
        paged_items == Slice(all_notes, offset, limit)
    IN  [items |-> paged_items, count |-> Len(paged_items), total |-> Len(all_notes),
         limit |-> limit, offset |-> offset]

list_notes(store, limit, offset) ==
    LET ids == sorted(DOMAIN store)
        all_notes == [i \in 1..Len(ids) |-> store[ids[i]]]
        paged_items == Slice(all_notes, offset, offset + limit)
    IN  [items |-> paged_items, count |-> Len(paged_items), total |-> Len(all_notes),
         limit |-> limit, offset |-> offset]

get_note_by_id(store, note_id) ==
    IF note_id \in DOMAIN store THEN store[note_id] ELSE NoneNote

\* variant: a change of content does not set the changed flag
update_note_title_flag(store, note_id, title, content, t) ==
    IF note_id \notin DOMAIN store THEN [store |-> store, ret |-> NoneNote]
    ELSE LET note == store[note_id]
             title_changed == title # NoneStr /\ title # note.title
             content_changed == content # NoneStr /\ content # note.content
             updated_note ==
                 Note(note.id,
                      IF title_changed THEN title ELSE note.title,
                      IF content_changed THEN content ELSE note.content,
                      note.created_at,
                      IF title_changed THEN t ELSE note.updated_at)
         IN  [store |-> Put(store, note_id, updated_note), ret |-> updated_note]

\* variant: a change stamps created_at as well as updated_at
update_note_restamp(store, note_id, title, content, t) ==
    IF note_id \notin DOMAIN store THEN [store |-> store, ret |-> NoneNote]
    ELSE LET note == store[note_id]
             title_changed == title # NoneStr /\ title # note.title
             content_changed == content # NoneStr /\ content # note.content
             changed == title_changed \/ content_changed
             updated_note ==
                 Note(note.id,
                      IF title_changed THEN title ELSE note.title,
                      IF content_changed THEN content ELSE note.content,
                      IF changed THEN t ELSE note.created_at,
                      IF changed THEN t ELSE note.updated_at)
         IN  [store |-> Put(store, note_id, updated_note), ret |-> updated_note]

update_note(store, note_id, title, content, t) ==
    IF note_id \notin DOMAIN store THEN [store |-> store, ret |-> NoneNote]
    ELSE LET note == store[note_id]
             title_changed == title # NoneStr /\ title # note.title
             content_changed == content # NoneStr /\ content # note.content
             changed == title_changed \/ content_changed
             updated_note ==
                 Note(note.id,
                      IF title_changed THEN title ELSE note.title,
                      IF content_changed THEN content ELSE note.content,
                      note.created_at,
                      IF changed THEN t ELSE note.updated_at)
         IN  [store |-> Put(store, note_id, updated_note), ret |-> updated_note]

\* variant: a missing id is reported as deleted
delete_note_always(store, note_id) ==
    IF note_id \notin DOMAIN store THEN [store |-> store, ret |-> TRUE]
    ELSE [store |-> [x \in DOMAIN store \ {note_id} |-> store[x]], ret |-> TRUE]

delete_note(store, note_id) ==
    IF note_id \notin DOMAIN store THEN [store |-> store, ret |-> FALSE]
    ELSE [store |-> [x \in DOMAIN store \ {note_id} |-> store[x]], ret |-> TRUE]

RECURSIVE Filter(_, _, _)
Filter(seq, q, acc) ==
    IF seq = <<>> THEN acc
    ELSE LET note == Head(seq)
         IN  Filter(Tail(seq), q,
                    IF str_in(q, lower(note.title)) \/ str_in(q, lower(note.content))
                    THEN Append(acc, note) ELSE acc)

\* variant: the query is compared as typed, without query.lower()
search_notes_raw_query(store, query) ==
    LET ids == sorted(DOMAIN store)
        all_notes == [i \in 1..Len(ids) |-> store[ids[i]]]
    IN  Filter(all_notes, query, <<>>)

search_notes(store, query) ==
    LET q == lower(query)
        ids == sorted(DOMAIN store)
        all_notes == [i \in 1..Len(ids) |-> store[ids[i]]]
    IN  Filter(all_notes, q, <<>>)

\* ---------------------------------------------------------------- requests
TitleInputs == {NoneStr, <<>>, <<" ">>, <<" ", "a">>, <<"A", "b">>}
ContentInputs == {NoneStr, <<"b">>}
QueryInputs == {NoneStr, <<>>, <<"a">>, <<"B">>, <<"a", "B">>, <<"b", "a">>}
LimitInputs == {0, 1, 2, 100, 101}
OffsetInputs == {-1, 0, 1, 3}
IdInputs == 1..(MaxNotes + 1)

Request(op) ==
    [op |-> op, note_id |-> 0, title |-> NoneStr, content |-> NoneStr,
     limit |-> 0, offset |-> 0, q |-> NoneStr, status |-> 0, body |-> NoBody]

Respond(req, status, body) == [req EXCEPT !.status = status, !.body = body]

validation_error(req, message) ==
    Respond(req, 422, ErrorResponse("validation_error", message))

note_not_found(req) ==
    Respond(req, 404,
            ErrorResponse("note_not_found", <<"Note with id=", req.note_id, " not found">>))

Threads == 1..NumThreads
Idle == [t \in Threads |-> "idle"]
NoLocals ==
    [t \in Threads |-> [title |-> <<>>, content |-> <<>>, note |-> NoneNote, key |-> 0, tmp |-> 0]]

\* notes_store = {}, next_id = 1, no request in flight
Init ==
    /\ notes_store = <<>>
    /\ next_id = 1
    /\ now = 0
    /\ resp = Request("none")
    /\ last_post = Request("none")
    /\ issued = <<>>
    /\ deleted = {}
    /\ pc = Idle
    /\ loc = NoLocals

\* requests are handled one at a time: the previous response has been sent
NoRequestInFlight == resp.op = "none"

\* POST /notes
post_note(title, content) ==
    LET req == [Request("post") EXCEPT !.title = title, !.content = content]
    IN  /\ NoRequestInFlight
        /\ next_id <= MaxNotes
        /\ IF title = NoneStr
           THEN /\ resp' = validation_error(req, <<"Field required">>)
                /\ last_post' = Request("none")
                /\ UNCHANGED <<notes_store, next_id, issued>>
           ELSE IF ~title_must_not_be_empty(title)
           THEN /\ resp' = validation_error(
                               req, <<"Value error, Title must be a non-empty string">>)
                /\ last_post' = Request("none")
                /\ UNCHANGED <<notes_store, next_id, issued>>
           ELSE LET r == create_note(notes_store, next_id, strip(title),
                                     IF content = NoneStr THEN <<>> ELSE content,
                                     utc_now_iso)
                IN  /\ notes_store' = r.store
                    /\ next_id' = r.next_id
                    /\ issued' = Append(issued, r.ret.id)
                    /\ resp' = Respond(req, 201, r.ret)
                    /\ last_post' = resp'
        /\ UNCHANGED <<now, deleted, pc, loc>>

\* GET /notes
get_notes(limit, offset) ==
    LET req == [Request("list") EXCEPT !.limit = limit, !.offset = offset]
    IN  /\ NoRequestInFlight
        /\ resp' = IF limit < 1
                   THEN validation_error(req, <<"Input should be greater than or equal to 1">>)
                   ELSE IF limit > 100
                   THEN validation_error(req, <<"Input should be less than or equal to 100">>)
                   ELSE IF offset < 0
                   THEN validation_error(req, <<"Input should be greater than or equal to 0">>)
                   ELSE Respond(req, 200, list_notes(notes_store, limit, offset))
        /\ last_post' = Request("none")
        /\ UNCHANGED <<notes_store, next_id, now, issued, deleted, pc, loc>>

\* GET /notes/search
get_notes_search(q) ==
    LET req == [Request("search") EXCEPT !.q = q]
    IN  /\ NoRequestInFlight
        /\ resp' = IF q = NoneStr
                   THEN validation_error(req, <<"Field required">>)
                   ELSE IF Len(q) < 1
                   THEN validation_error(req, <<"String should have at least 1 character">>)
                   ELSE Respond(req, 200, search_notes(notes_store, q))
        /\ last_post' = Request("none")
        /\ UNCHANGED <<notes_store, next_id, now, issued, deleted, pc, loc>>

\* GET /notes/{note_id}
get_note(note_id) ==
    LET req == [Request("get") EXCEPT !.note_id = note_id]
        note == get_note_by_id(notes_store, note_id)
    IN  /\ NoRequestInFlight
        /\ resp' = IF note = NoneNote THEN note_not_found(req) ELSE Respond(req, 200, note)
        /\ UNCHANGED <<notes_store, next_id, now, last_post, issued, deleted, pc, loc>>

\* PATCH /notes/{note_id}
patch_note(note_id, title, content) ==
    LET req == [Request("patch") EXCEPT
                    !.note_id = note_id, !.title = title, !.content = content]
    IN  /\ NoRequestInFlight
        /\ IF ~title_if_provided_must_not_be_empty(title)
           THEN /\ resp' = validation_error(
                               req, <<"Value error, Title must be a non-empty string">>)
                /\ UNCHANGED notes_store
           ELSE IF title = NoneStr /\ content = NoneStr
           THEN /\ resp' = Respond(req, 400,
                               ErrorResponse("invalid_request",
                                   <<"Provide at least one field to update: title or content">>))
                /\ UNCHANGED notes_store
           ELSE LET r == update_note(notes_store, note_id,
                                     IF title # NoneStr THEN strip(title) ELSE NoneStr,
                                     content, utc_now_iso)
                IN  /\ notes_store' = r.store
                    /\ resp' = IF r.ret = NoneNote THEN note_not_found(req)
                               ELSE Respond(req, 200, r.ret)
        /\ last_post' = Request("none")
        /\ UNCHANGED <<next_id, now, issued, deleted, pc, loc>>

\* DELETE /notes/{note_id}
remove_note(note_id) ==
    LET req == [Request("delete") EXCEPT !.note_id = note_id]
        r == delete_note(notes_store, note_id)
    IN  /\ NoRequestInFlight
        /\ notes_store' = r.store
        /\ resp' = IF ~r.ret THEN note_not_found(req) ELSE Respond(req, 204, NoBody)
        /\ deleted' = IF r.ret THEN deleted \cup {note_id} ELSE deleted
        /\ last_post' = Request("none")
        /\ UNCHANGED <<next_id, now, issued, pc, loc>>

\* the response leaves the process; the handler keeps nothing of the request
Deliver ==
    /\ resp.op # "none"
    /\ resp' = Request("none")
    /\ UNCHANGED <<notes_store, next_id, now, last_post, issued, deleted, pc, loc>>

\* the wall clock read by utc_now_iso advances between requests
Tick ==
    /\ now < MaxTime
    /\ now' = now + 1
    /\ UNCHANGED <<notes_store, next_id, resp, last_post, issued, deleted, pc, loc>>

Next ==
    \/ \E title \in TitleInputs, content \in ContentInputs : post_note(title, content)
    \/ \E limit \in LimitInputs, offset \in OffsetInputs : get_notes(limit, offset)
    \/ \E q \in QueryInputs : get_notes_search(q)
    \/ \E note_id \in IdInputs : get_note(note_id)
    \/ \E note_id \in IdInputs, title \in TitleInputs, content \in ContentInputs :
           patch_note(note_id, title, content)
    \/ \E note_id \in IdInputs : remove_note(note_id)
    \/ Deliver
    \/ Tick

Spec == Init /\ [][Next]_vars

\* ------------------------------------------- POST /notes on several threads
\* create_note statement by statement: each read and each write of the globals
\* notes_store and next_id is one step of the thread that runs it.
ValidTitles == {title \in TitleInputs : title # NoneStr /\ title_must_not_be_empty(title)}

\* post_note: the payload is validated and create_note is entered (lines 165-166, 76)
c_enter(t, title, content) ==
    /\ pc[t] = "idle"
    /\ loc' = [loc EXCEPT ![t].title = strip(title),
                          ![t].content = IF content = NoneStr THEN <<>> ELSE content]
    /\ pc' = [pc EXCEPT ![t] = "build"]
    /\ UNCHANGED <<notes_store, next_id, now, resp, last_post, issued, deleted>>

\* note = Note(id=next_id, ...) (lines 77-79)
c_build(t) ==
    /\ pc[t] = "build"
    /\ loc' = [loc EXCEPT ![t].note =
                   Note(next_id, loc[t].title, loc[t].content, utc_now_iso, utc_now_iso)]
    /\ pc' = [pc EXCEPT ![t] = "key"]
    /\ UNCHANGED <<notes_store, next_id, now, resp, last_post, issued, deleted>>

\* notes_store[next_id] = note: the key is read (line 80)
c_key(t) ==
    /\ pc[t] = "key"
    /\ loc' = [loc EXCEPT ![t].key = next_id]
    /\ pc' = [pc EXCEPT ![t] = "store"]
    /\ UNCHANGED <<notes_store, next_id, now, resp, last_post, issued, deleted>>

\* notes_store[next_id] = note: the item is stored (line 80)
c_store(t) ==
    /\ pc[t] = "store"
    /\ notes_store' = Put(notes_store, loc[t].key, loc[t].note)
    /\ pc' = [pc EXCEPT ![t] = "load"]
    /\ UNCHANGED <<next_id, now, resp, last_post, issued, deleted, loc>>

\* next_id += 1: the counter is read (line 81)
c_load(t) ==
    /\ pc[t] = "load"
    /\ loc' = [loc EXCEPT ![t].tmp = next_id]
    /\ pc' = [pc EXCEPT ![t] = "inc"]
    /\ UNCHANGED <<notes_store, next_id, now, resp, last_post, issued, deleted>>

\* next_id += 1: the sum is written back; return note (lines 81-82)
c_inc(t) ==
    /\ pc[t] = "inc"
    /\ next_id' = loc[t].tmp + 1
    /\ issued' = Append(issued, loc[t].note.id)
    /\ pc' = [pc EXCEPT ![t] = "done"]
    /\ UNCHANGED <<notes_store, now, resp, last_post, deleted, loc>>

NextConc ==
    \/ \E t \in Threads, title \in ValidTitles, content \in ContentInputs :
           c_enter(t, title, content)
    \/ \E t \in Threads : c_build(t)
    \/ \E t \in Threads : c_key(t)
    \/ \E t \in Threads : c_store(t)
    \/ \E t \in Threads : c_load(t)
    \/ \E t \in Threads : c_inc(t)

SpecConc == Init /\ [][NextConc]_vars

\* ------------------------------------------------------------- properties
IsBlank(s) == \A i \in 1..Len(s) : s[i] \in Whitespace

\* result is raw without its leading and trailing whitespace
Trimmed(raw, result) ==
    \/ IsBlank(raw) /\ result = <<>>
    \/ \E i \in 1..Len(raw), j \in 1..Len(raw) :
           /\ i <= j
           /\ result = SubSeq(raw, i, j)
           /\ raw[i] \notin Whitespace
           /\ raw[j] \notin Whitespace
           /\ \A k \in 1..Len(raw) : (k < i \/ k > j) => raw[k] \in Whitespace

SameLetter(a, b) == a = b \/ {a, b} \in {{"a", "A"}, {"b", "B"}}

\* q occurs in text at some position, letter for letter, case ignored
OccursIgnoringCase(q, text) ==
    \E i \in 0..(Len(text) - Len(q)) : \A j \in 1..Len(q) : SameLetter(q[j], text[i + j])

Live == DOMAIN notes_store

\* this step is a request of kind op being handled
Handled(op) == resp.op = "none" /\ resp'.op = op

\* C1: ids are handed out in strictly increasing order, every stored note sits
\* under its own id, and no live note carries an id that was deleted before.
C1_IdsIncreaseAndAreNeverReused ==
    /\ \A i \in 1..Len(issued) : \A j \in 1..Len(issued) : i < j => issued[i] < issued[j]
    /\ \A k \in Live : notes_store[k].id = k
    /\ \A k \in Live : \E i \in 1..Len(issued) : issued[i] = k
    /\ Live \cap deleted = {}
    /\ (resp.op = "post" /\ resp.status = 201) =>
           /\ resp.body.id = issued[Len(issued)]
           /\ resp.body.id \notin deleted

\* a note is created after an earlier one was deleted
C1_Witness ==
    /\ resp.op = "post"
    /\ resp.status = 201
    /\ Len(issued) >= 2
    /\ deleted # {}

\* C2: the title of every stored note holds at least one non-whitespace character.
C2_StoredTitleNeverBlank ==
    \A k \in Live : \E i \in 1..Len(notes_store[k].title) :
        notes_store[k].title[i] \notin Whitespace

\* a note created from a padded title, then given a new title by a patch
C2_Witness ==
    /\ resp.op = "patch"
    /\ resp.status = 200
    /\ resp.title # NoneStr
    /\ resp.title # resp.body.title

\* C3: deleting a live id answers 204 and removes the note; afterwards the id
\* stays out of the store and every GET or DELETE of it answers 404 note_not_found.
C3_DeletedStaysGone ==
    [][/\ \A i \in deleted :
              /\ i \notin DOMAIN notes_store'
              /\ ((Handled("get") \/ Handled("delete")) /\ resp'.note_id = i) =>
                     /\ resp'.status = 404
                     /\ resp'.body.error.code = "note_not_found"
       /\ (Handled("delete") /\ resp'.note_id \in Live) =>
              /\ resp'.status = 204
              /\ resp'.body = NoBody
              /\ resp'.note_id \notin DOMAIN notes_store'
              /\ resp'.note_id \in deleted'
       /\ (Handled("delete") /\ resp'.note_id \notin Live) => resp'.status = 404
      ]_vars

\* a second DELETE of a deleted id, with another note created in between
C3_Witness ==
    /\ resp.op = "delete"
    /\ resp.status = 404
    /\ resp.note_id \in deleted
    /\ Live # {}
    /\ \E k \in Live : k > resp.note_id

\* C4: a PATCH whose title is supplied and blank answers 422 validation_error
\* and changes neither the store nor the id counter, whatever the id and content.
C4_BlankPatchTitleRejected ==
    [][(Handled("patch") /\ resp'.title # NoneStr /\ IsBlank(resp'.title)) =>
           /\ resp'.status = 422
           /\ resp'.body.error.code = "validation_error"
           /\ notes_store' = notes_store
           /\ next_id' = next_id
      ]_vars

\* a whitespace-only title, sent with content, for a live note
C4_Witness ==
    /\ resp.op = "patch"
    /\ resp.title = <<" ">>
    /\ resp.content # NoneStr
    /\ resp.note_id \in Live
    /\ resp.content # notes_store[resp.note_id].content
    /\ resp.status = 422

\* C5 as claimed: every PATCH answering 200 returns the record with updated_at
\* set to the time of that update.
C5_EveryPatchRefreshes ==
    [][(Handled("patch") /\ resp'.status = 200) =>
           /\ resp'.body = notes_store'[resp'.note_id]
           /\ resp'.body.updated_at = now
      ]_vars

\* C5 amended: a PATCH answering 200 returns the full stored record; updated_at
\* is the time of the update when a supplied field differs from the stored one
\* (the title compared after trimming), and keeps its old value otherwise.
C5_PatchRefreshesOnChange ==
    [][(Handled("patch") /\ resp'.status = 200) =>
           LET old == notes_store[resp'.note_id]
               differs ==
                   \/ resp'.title # NoneStr /\ ~Trimmed(resp'.title, old.title)
                   \/ resp'.content # NoneStr /\ resp'.content # old.content
           IN  /\ resp'.body = notes_store'[resp'.note_id]
               /\ differs => resp'.body.updated_at = now
               /\ ~differs => resp'.body.updated_at = old.updated_at
      ]_vars

\* a content-only patch that changed the content, after the clock moved
C5_Witness ==
    /\ resp.op = "patch"
    /\ resp.status = 200
    /\ resp.title = NoneStr
    /\ resp.content # NoneStr
    /\ resp.body.updated_at = now
    /\ resp.body.updated_at > resp.body.created_at

\* C6 as claimed: a GET of the id a POST just returned gives the posted title
\* and content unchanged, and created_at = updated_at.
C6_ReadBackIdentical ==
    (resp.op = "get" /\ last_post.op = "post" /\ resp.note_id = last_post.body.id) =>
        /\ resp.status = 200
        /\ resp.body.title = last_post.title
        /\ resp.body.content = (IF last_post.content = NoneStr THEN <<>> ELSE last_post.content)
        /\ resp.body.created_at = resp.body.updated_at

\* C6 amended: a GET of the id a POST just returned gives the posted title with
\* its surrounding whitespace removed, the posted content (empty when omitted),
\* and created_at = updated_at.
C6_ReadBackTrimmed ==
    (resp.op = "get" /\ last_post.op = "post" /\ resp.note_id = last_post.body.id) =>
        /\ resp.status = 200
        /\ resp.body.id = last_post.body.id
        /\ Trimmed(last_post.title, resp.body.title)
        /\ resp.body.content = (IF last_post.content = NoneStr THEN <<>> ELSE last_post.content)
        /\ resp.body.created_at = resp.body.updated_at

\* the read-back of a note posted with a padded title and with content
C6_Witness ==
    /\ resp.op = "get"
    /\ last_post.op = "post"
    /\ resp.note_id = last_post.body.id
    /\ last_post.title = <<" ", "a">>
    /\ last_post.content = <<"b">>
    /\ resp.body.created_at > 0

\* C7: a PATCH answering 200 keeps the id and created_at of its note, keeps the
\* field it was not given, sets the field it was given, and leaves every other
\* note, the set of stored ids and the id counter as they were.
C7_PatchFrame ==
    [][(Handled("patch") /\ resp'.status = 200) =>
           LET old == notes_store[resp'.note_id]
               new == notes_store'[resp'.note_id]
           IN  /\ new.id = old.id
               /\ new.created_at = old.created_at
               /\ resp'.title = NoneStr => new.title = old.title
               /\ resp'.content = NoneStr => new.content = old.content
               /\ resp'.title # NoneStr => Trimmed(resp'.title, new.title)
               /\ resp'.content # NoneStr => new.content = resp'.content
               /\ DOMAIN notes_store' = DOMAIN notes_store
               /\ \A k \in Live \ {resp'.note_id} : notes_store'[k] = notes_store[k]
               /\ next_id' = next_id
      ]_vars

\* a content-only patch of one of two notes, later than the note's creation
C7_Witness ==
    /\ resp.op = "patch"
    /\ resp.status = 200
    /\ resp.title = NoneStr
    /\ Cardinality(Live) >= 2
    /\ resp.body.updated_at > resp.body.created_at

\* C8: a list request with limit in 1..100 and offset >= 0 answers 200 with the
\* live notes in ascending id order at positions offset .. offset+limit-1,
\* total = the number of live notes, count = the number of items, limit and
\* offset echoed; an offset at or past total gives an empty page.
C8_ListWindow ==
    [][(Handled("list") /\ resp'.limit \in 1..100 /\ resp'.offset >= 0) =>
           LET b == resp'.body
               rest == Cardinality(Live) - resp'.offset
           IN  /\ resp'.status = 200
               /\ notes_store' = notes_store
               /\ b.total = Cardinality(Live)
               /\ b.limit = resp'.limit
               /\ b.offset = resp'.offset
               /\ b.count = Len(b.items)
               /\ b.count = (IF rest <= 0 THEN 0 ELSE Min(resp'.limit, rest))
               /\ \A p \in 1..Len(b.items) :
                      /\ b.items[p].id \in Live
                      /\ b.items[p] = notes_store[b.items[p].id]
                      /\ Cardinality({k \in Live : k < b.items[p].id}) = resp'.offset + p - 1
      ]_vars

\* the second of two notes, listed alone by limit 1, offset 1
C8_Witness ==
    /\ resp.op = "list"
    /\ resp.status = 200
    /\ resp.body.total = 2
    /\ resp.offset = 1
    /\ resp.limit = 1
    /\ resp.body.count = 1

\* C9: a search with a non-empty q answers 200 with exactly the live notes whose
\* title or content holds q case-insensitively, each once, in ascending id
\* order, and leaves the store and the id counter unchanged.
C9_SearchExact ==
    [][(Handled("search") /\ resp'.q # NoneStr /\ resp'.q # <<>>) =>
           LET items == resp'.body
               hits == {k \in Live :
                           \/ OccursIgnoringCase(resp'.q, notes_store[k].title)
                           \/ OccursIgnoringCase(resp'.q, notes_store[k].content)}
           IN  /\ resp'.status = 200
               /\ notes_store' = notes_store
               /\ next_id' = next_id
               /\ Len(items) = Cardinality(hits)
               /\ \A p \in 1..Len(items) :
                      /\ items[p].id \in hits
                      /\ items[p] = notes_store[items[p].id]
               /\ \A p \in 1..Len(items) : \A r \in 1..Len(items) :
                      p < r => items[p].id < items[r].id
      ]_vars

\* a mixed-case two-letter query that selects one of two notes
C9_Witness ==
    /\ resp.op = "search"
    /\ resp.status = 200
    /\ resp.q = <<"a", "B">>
    /\ Cardinality(Live) = 2
    /\ Len(resp.body) = 1

\* C10: when every concurrent POST has returned, the returned ids are pairwise
\* distinct, every returned note is in the store under its id, and the counter
\* has advanced once per request.
C10_ConcurrentCreatesKeepIdsDistinct ==
    (\A t \in Threads : pc[t] = "done") =>
        /\ \A t \in Threads : \A u \in Threads : t # u => loc[t].note.id # loc[u].note.id
        /\ \A t \in Threads :
               /\ loc[t].note.id \in Live
               /\ notes_store[loc[t].note.id] = loc[t].note
        /\ next_id = 1 + NumThreads

====
